---- MODULE Spec2Model ----
(***************************************************************************)
(* git-rewind: the in-process job queue (server/src/queue.ts), the         *)
(* fetch-commits worker loop (server/src/index.ts), the full-collection    *)
(* run (cli.js main) and the commit store written by saveCommitToDB.       *)
(*                                                                         *)
(* Spec      : the job queue driven by addJob calls, worker settlements,   *)
(*             the clock and the periodic sweep.                           *)
(* SpecFetch : reconciliation runs (batch-fetch loop and full-collection   *)
(*             main) against the remote listing and the commit store, one  *)
(*             step per await and per statement on the store, with another *)
(*             process saving into the same store and the statements of    *)
(*             DELETE /api/commits/by-authors in between.                  *)
(***************************************************************************)
EXTENDS Integers, Sequences, FiniteSets, TLC

\* ------------------------------------------------------------------------
\* Bounds
\* ------------------------------------------------------------------------
\* number of addJob calls explored
MaxJobs == 3
\* number of clock advances explored
MaxTicks == 2

\* number of fetch-all jobs explored
MaxChildJobs == 2
\* characters of a child's stdout and of its stderr explored
MaxOutputLen == 22
MaxErrorLen == 4

\* number of reconciliation runs explored
MaxRuns == 2
\* number of disturbances explored in one behaviour: calls made to fail
\* (a detail fetch, a write of the store), saves by another process and
\* DELETE requests
MaxDisturbances == 2
\* number of runs and disturbances explored together in one behaviour
MaxEvents == 3
\* the largest per-repository cap (payload limit) explored
MaxLimit == 2

\* ------------------------------------------------------------------------
\* Program constants
\* ------------------------------------------------------------------------
\* 60 * 60 * 1000 in cleanupOldJobs
OneHourMs == 3600000

\* one clock advance, in milliseconds: the retention window
TickMs == OneHourMs

\* absent optional field (undefined) of a Job: strings and numbers
Undefined == "undefined"
Null == "null"
NoTime == -1

JobTypes == {"fetch-commits", "fetch-all"}

\* ------------------------------------------------------------------------
\* The worker, as the queue sees it.  The payload of a job scripts what the
\* registered worker does with it: return a value, or raise.  `sync` tells
\* whether the worker raises before returning a promise (a non-async
\* function throwing) or settles its promise later.
\*   thrown "error_msg"   : new Error("boom")
\*   thrown "error_empty" : new Error("")
\*   thrown "value"       : a thrown value without a message property ("x", {})
\*   thrown "nullish"     : throw null / throw undefined / reject()
\*   any other string     : new Error(that string)
\* ------------------------------------------------------------------------
Thrown == {"error_msg", "error_empty", "value", "nullish"}
\* the addJob calls explored: a job of either type that succeeds, a
\* batch-fetch job whose worker rejects with each kind of value, and one
\* whose worker raises before it returns a promise
JobInputs == [type : JobTypes, data : [outcome : {"return"}, sync : {FALSE}]]
             \cup [type : {"fetch-commits"}, data : [outcome : Thrown, sync : {FALSE}]]
             \cup [type : {"fetch-commits"},
                   data : [outcome : {"error_msg", "nullish"}, sync : {TRUE}]]

\* error.message of a thrown value; reading .message of null/undefined raises
\* a TypeError, which MessageRaises tells
MessageRaises(thrown) == thrown = "nullish"
Message(thrown) ==
    CASE thrown = "error_msg" -> "boom"
      [] thrown = "error_empty" -> ""
      [] thrown \in {"value", "nullish"} -> Undefined
      [] OTHER -> thrown

\* JavaScript truthiness of a string, null or undefined
Truthy(v) == v \notin {Undefined, Null, ""}

\* error.message || 'Unknown error'
ErrorText(thrown) == IF Truthy(Message(thrown)) THEN Message(thrown) ELSE "Unknown error"

\* the value the worker resolves with for a job
ResultOf(jobId) == <<"result", jobId>>
NoResult == <<"undefined", 0>>

\* no updateProgress call so far
NoCall == [id |-> 0, progress |-> NoTime, emitted |-> FALSE]

VARIABLES
    \* JobQueue fields
    jobs,        \* Map<string, Job>: function from the ids present to Job records
    queue,       \* string[]: the wait-list
    processing,  \* boolean flag
    worker,      \* TRUE once setWorker has registered the worker
    \* environment of the queue
    now,         \* Date.now(), milliseconds
    nextId,      \* the next fresh job id (ids are unique strings in the code)
    \* instrumentation of the worker
    running,     \* ids of jobs whose worker promise is unsettled
    peak,        \* the most worker invocations ever in flight together
    started,     \* ids in the order they were handed to the worker
    escaped,     \* TRUE once an exception left processNext (unhandled rejection)
    swept,       \* ids removed by cleanupOldJobs
    \* the commit store (SQLite file shared by the server and cli.js)
    db,          \* [commits, files, schema]
    \* the remote and the configuration
    listing,     \* repo -> the references getCommits returns, in order
    \* one reconciliation run
    run,         \* which loop runs, the await it is at and where in the loops
    results,     \* the per-commit results accumulated by the run
    runs,        \* number of runs started
    \* instrumentation of the collaborators, per run
    startCommits,   \* the commits table when the run started
    detailCalls,    \* hash -> getCommitDetailsWithDiff calls
    annotateCalls,  \* hash -> analyzeCommitWithAI calls
    saveCalls,      \* hash -> saveCommitToDB calls
    lastSave,       \* what the last saveCommitToDB call of the run returned
    listCalls,      \* getCommits calls
    faults,         \* the detail fetches and writes of the run that failed: [sha, kind]
    \* the worker invocation that runs the fetch-commits loop
    conn,           \* datastore connections open, of the server and of cli.js
    ended,          \* how the worker's promise (or main's) settled, "pending" before
    \* the other users of the store file
    env,            \* disturbances so far: calls made to fail, writes of others
    del,            \* the DELETE /api/commits/by-authors request being served
    \* the worker invocations that run cli.js (fetch-all)
    children,       \* job id -> the child process and the promise the worker returned
    \* instrumentation of updateProgress
    lastCall        \* the last updateProgress call and whether it emitted
                    \* 'job-progress': [id, progress, emitted]

fvars == <<db, listing, run, results, runs, startCommits,
           detailCalls, annotateCalls, saveCalls, lastSave,
           listCalls, faults, conn, ended, env, del>>

cvars == <<children, lastCall>>

qvars == <<jobs, queue, processing, worker, now, nextId, running, peak, started,
          escaped, swept>>

\* the queue as one record, threaded through processNext
QState == [jobs |-> jobs, queue |-> queue, processing |-> processing,
           worker |-> worker, running |-> running, peak |-> peak,
           started |-> started, escaped |-> escaped]

\* NewJob without the creation timestamp
NewJobNoCreatedAt(jobId, type, data, t) ==
    [id |-> jobId, type |-> type, data |-> data, status |-> "pending",
     progress |-> NoTime, result |-> NoResult, error |-> Undefined,
     createdAt |-> NoTime, startedAt |-> NoTime, completedAt |-> NoTime]

NewJob(jobId, type, data, t) ==
    [id |-> jobId, type |-> type, data |-> data, status |-> "pending",
     progress |-> NoTime, result |-> NoResult, error |-> Undefined,
     createdAt |-> t, startedAt |-> NoTime, completedAt |-> NoTime]

Max(a, b) == IF a > b THEN a ELSE b

RECURSIVE ProcessNext(_, _)
RECURSIVE Settle(_, _, _, _)

\* Settle that puts a job back on the wait-list the first time it fails
SettleRetry(q, jobId, outcome, t) ==
    IF outcome = "return"
    THEN ProcessNext([q EXCEPT !.jobs[jobId].status = "completed",
                               !.jobs[jobId].result = ResultOf(jobId),
                               !.jobs[jobId].completedAt = t,
                               !.running = @ \ {jobId},
                               !.processing = FALSE], t)
    ELSE IF MessageRaises(outcome)
    THEN [q EXCEPT !.jobs[jobId].status = "failed",
                   !.running = @ \ {jobId},
                   !.escaped = TRUE]
    ELSE ProcessNext([q EXCEPT !.jobs[jobId].status = "failed",
                               !.jobs[jobId].error = ErrorText(outcome),
                               !.jobs[jobId].completedAt = t,
                               !.running = @ \ {jobId},
                               !.processing = FALSE,
                               !.queue = IF q.jobs[jobId].completedAt = NoTime
                                         THEN Append(@, jobId) ELSE @], t)

\* the part of processNext after `await this.worker(job)`: the try block's
\* continuation on a returned value, the catch block on a raised one, then
\* the flag reset and the next dispatch
Settle(q, jobId, outcome, t) ==
    IF outcome = "return"
    THEN ProcessNext([q EXCEPT !.jobs[jobId].status = "completed",
                               !.jobs[jobId].result = ResultOf(jobId),
                               !.jobs[jobId].completedAt = t,
                               !.running = @ \ {jobId},
                               !.processing = FALSE], t)
    ELSE IF MessageRaises(outcome)
    THEN \* job.status = 'failed' is assigned, then error.message raises
         \* inside the catch block: nothing after it runs
         [q EXCEPT !.jobs[jobId].status = "failed",
                   !.running = @ \ {jobId},
                   !.escaped = TRUE]
    ELSE ProcessNext([q EXCEPT !.jobs[jobId].status = "failed",
                               !.jobs[jobId].error = ErrorText(outcome),
                               !.jobs[jobId].completedAt = t,
                               !.running = @ \ {jobId},
                               !.processing = FALSE], t)

\* CanDispatch without the flag test
CanDispatchNoFlag(q) == q.queue # <<>>

\* the guard of processNext: dispatch only when idle and something waits
CanDispatch(q) == ~q.processing /\ q.queue # <<>>

ProcessNext(q, t) ==
    IF ~CanDispatch(q)
    THEN q
    ELSE LET jobId == Head(q.queue)
             q1 == [q EXCEPT !.processing = TRUE, !.queue = Tail(q.queue)]
         IN  IF jobId \notin DOMAIN q1.jobs \/ ~q1.worker
             THEN ProcessNext([q1 EXCEPT !.processing = FALSE], t)
             ELSE LET q2 == [q1 EXCEPT !.jobs[jobId].status = "processing",
                                       !.jobs[jobId].startedAt = t,
                                       !.started = Append(@, jobId),
                                       !.running = @ \cup {jobId},
                                       !.peak = Max(@, Cardinality(q1.running \cup {jobId}))]
                      data == q.jobs[jobId].data
                  IN  IF data.sync
                      THEN Settle(q2, jobId, data.outcome, t)
                      ELSE q2

\* the job as the queue holds it once the worker's promise for it has settled
\* with the given outcome: processNext resumed on a queue that runs this job
JobAfter(out) ==
    LET job == [NewJob(1, "fetch-commits", [outcome |-> out, sync |-> FALSE], 0)
                  EXCEPT !.status = "processing", !.startedAt = 0]
        q == [jobs |-> (1 :> job), queue |-> << >>, processing |-> TRUE,
              worker |-> TRUE, running |-> {1}, peak |-> 1, started |-> <<1>>,
              escaped |-> FALSE]
    IN  Settle(q, 1, out, 0).jobs[1]

\* Enqueue with unshift in place of push
EnqueueFront(q, jobId) == <<jobId>> \o q

\* where addJob puts the new id in the wait-list
Enqueue(q, jobId) == Append(q, jobId)

SetQueue(q) ==
    /\ jobs' = q.jobs
    /\ queue' = q.queue
    /\ processing' = q.processing
    /\ running' = q.running
    /\ peak' = q.peak
    /\ started' = q.started
    /\ escaped' = q.escaped

\* jobQueue.setWorker(...) at the top of index.ts, before any route exists
SetWorker ==
    /\ ~worker
    /\ worker' = TRUE
    /\ UNCHANGED <<jobs, queue, processing, now, nextId, running, peak, started, escaped, swept>>
    /\ UNCHANGED fvars

\* addJob(type, data)
AddJobCall(type, data) ==
    /\ nextId <= MaxJobs
    /\ LET jobId == nextId
           q1 == [QState EXCEPT !.jobs = (jobId :> NewJob(jobId, type, data, now)) @@ jobs,
                                !.queue = Enqueue(queue, jobId)]
       IN  SetQueue(ProcessNext(q1, now))
    /\ nextId' = nextId + 1
    /\ UNCHANGED <<worker, now, swept>>
    /\ UNCHANGED fvars

\* addJob(type, data) as called by the POST /api/fetch routes, which exist
\* only after the worker has been registered
AddJob(type, data) == worker /\ AddJobCall(type, data)

\* the promise of the running job settles and processNext resumes
WorkerSettles ==
    /\ \E jobId \in running :
         SetQueue(Settle(QState, jobId, jobs[jobId].data.outcome, now))
    /\ UNCHANGED <<worker, now, nextId, swept>>
    /\ UNCHANGED fvars

\* IsOld with <= in place of <
IsOldInclusive(job, t) ==
    /\ job.status \in {"completed", "failed"}
    /\ job.completedAt # NoTime
    /\ job.completedAt <= t - OneHourMs

\* the condition of cleanupOldJobs for one job
IsOld(job, t) ==
    /\ job.status \in {"completed", "failed"}
    /\ job.completedAt # NoTime
    /\ job.completedAt < t - OneHourMs

CleanupOldJobs ==
    /\ LET old == {id \in DOMAIN jobs : IsOld(jobs[id], now)}
       IN  /\ jobs' = [id \in DOMAIN jobs \ old |-> jobs[id]]
           /\ swept' = swept \cup old
    /\ UNCHANGED <<queue, processing, worker, now, nextId, running, peak, started, escaped>>
    /\ UNCHANGED fvars

\* getAllJobs(): the jobs of the map, in any order
GetAllJobs(js) == {js[id] : id \in DOMAIN js}

\* GetStats that never counts a failed job
GetStatsNoFailed(js) ==
    LET count(st) == Cardinality({id \in DOMAIN js : js[id].status = st})
    IN  [total |-> Cardinality(DOMAIN js),
         pending |-> count("pending"),
         processing |-> count("processing"),
         completed |-> count("completed"),
         failed |-> 0]

\* getStats()
GetStats(js) ==
    LET count(st) == Cardinality({id \in DOMAIN js : js[id].status = st})
    IN  [total |-> Cardinality(DOMAIN js),
         pending |-> count("pending"),
         processing |-> count("processing"),
         completed |-> count("completed"),
         failed |-> count("failed")]

\* time passes
Tick ==
    /\ now < MaxTicks * TickMs
    /\ now' = now + TickMs
    /\ UNCHANGED <<jobs, queue, processing, worker, nextId, running, peak, started, escaped, swept>>
    /\ UNCHANGED fvars

\* ------------------------------------------------------------------------
\* The remote: what the GitHub API returns.  A content hash is its first
\* seven characters and the rest, so that two hashes can share a short form.
\* ------------------------------------------------------------------------
H1 == <<"aaaaaaa", "1">>
H2 == <<"aaaaaaa", "2">>
H3 == <<"bbbbbbb", "1">>
Hashes == {H1, H2, H3}

\* data.sha.substring(0, 7)
Short(h) == h[1]

\* data.commit.author.name
AuthorOf(h) == CASE h = H1 -> "bob" [] h = H2 -> "Bob" [] OTHER -> "alice"

\* data.files, by filename
FilesOf(h) == CASE h = H1 -> <<"a.ts", "b.ts">> [] h = H2 -> << >> [] OTHER -> <<"a.ts">>

\* the repositories of a run, in the order given
Repos == <<"o/r1", "o/r2">>
RepoNames == {Repos[i] : i \in 1..Len(Repos)}

\* the CommitData getCommitDetailsWithDiff builds
CommitData(h, repo) ==
    [sha |-> Short(h), fullSha |-> h, repo |-> repo, author |-> AuthorOf(h),
     files |-> FilesOf(h)]

\* ------------------------------------------------------------------------
\* The commit store.  commits: full_sha -> row; sha (the short hash) is the
\* PRIMARY KEY and full_sha is UNIQUE.  files: a bag of commit_files rows.
\* schema tells which program created the tables: the server's
\* initCommitsTables (no uniqueness on file rows, ON DELETE CASCADE) or
\* cli.js's initDatabase (UNIQUE(commit_sha, filename), no cascade).
\* Foreign keys are enforced on every connection.
\* ------------------------------------------------------------------------
Schemas == {"server", "cli"}
EmptyDb(schema) == [commits |-> << >>, files |-> << >>, schema |-> schema]

\* one more copy of a row in a bag
AddRow(bag, r) ==
    IF r \in DOMAIN bag THEN [bag EXCEPT ![r] = @ + 1] ELSE (r :> 1) @@ bag

\* WithoutCommits that deletes no row (no ON DELETE CASCADE)
WithoutCommitsKeepsRows(bag, shas) == bag

\* a bag without the rows of the given commits
WithoutCommits(bag, shas) ==
    [r \in {x \in DOMAIN bag : x.commit_sha \notin shas} |-> bag[r]]

\* the values bound by insertCommit.run
CommitRow(c, aiSummary) ==
    [sha |-> c.sha, repo |-> c.repo, author |-> c.author,
     ai_summary |-> aiSummary,
     ai_analyzed_at |-> IF Truthy(aiSummary) THEN "timestamp" ELSE Null]

\* the rows an INSERT OR REPLACE of (sha, full_sha) deletes: those that hold
\* the same primary key or the same unique full_sha
Conflicting(commits, sha, fullSha) ==
    {h \in DOMAIN commits : h = fullSha \/ commits[h].sha = sha}

\* INSERT OR REPLACE INTO commits: [db, ok]; a failed statement changes nothing
InsertCommit(d, fullSha, row) ==
    LET victims == Conflicting(d.commits, row.sha, fullSha)
        kept == (DOMAIN d.commits \ victims) \cup {fullSha}
        commits2 == [h \in kept |-> IF h = fullSha THEN row ELSE d.commits[h]]
        files2 == IF d.schema = "server"
                  THEN WithoutCommits(d.files, victims)
                  ELSE d.files
        orphans == {r \in DOMAIN files2 : r.commit_sha \notin kept}
    IN  IF orphans # {}
        THEN [db |-> d, ok |-> FALSE]
        ELSE [db |-> [d EXCEPT !.commits = commits2, !.files = files2], ok |-> TRUE]

\* INSERT OR REPLACE INTO commit_files
InsertFile(d, fullSha, filename) ==
    LET r == [commit_sha |-> fullSha, filename |-> filename]
    IN  IF d.schema = "cli"
        THEN [d EXCEPT !.files = (r :> 1) @@ [x \in DOMAIN d.files \ {r} |-> d.files[x]]]
        ELSE [d EXCEPT !.files = AddRow(d.files, r)]

\* the loop over commitData.files inside the transaction; failAt numbers the
\* write that the storage layer refuses (1 the commit row, k + 1 the k-th file
\* row, 0 none)
RECURSIVE InsertFiles(_, _, _, _)
InsertFiles(d, c, k, failAt) ==
    IF k > Len(c.files) THEN [db |-> d, ok |-> TRUE]
    ELSE IF failAt = k + 1 THEN [db |-> d, ok |-> FALSE]
    ELSE InsertFiles(InsertFile(d, c.fullSha, c.files[k]), c, k + 1, failAt)

\* the function wrapped by this.db.transaction
TransactionBody(d, c, aiSummary, failAt) ==
    IF failAt = 1 THEN [db |-> d, ok |-> FALSE]
    ELSE LET r == InsertCommit(d, c.fullSha, CommitRow(c, aiSummary))
         IN  IF r.ok THEN InsertFiles(r.db, c, 1, failAt) ELSE r

\* Rollback that keeps the writes made before the failure
RollbackKeepsPartial(before, partial) == partial

\* ROLLBACK: the store as it was at BEGIN
Rollback(before, partial) == before

\* saveCommitToDB: [db, ok]
SaveCommitToDB(d, c, aiSummary, failAt) ==
    LET r == TransactionBody(d, c, aiSummary, failAt)
    IN  [db |-> IF r.ok THEN r.db ELSE Rollback(d, r.db), ok |-> r.ok]

\* getCommitFromDB: the row's ai_summary, if the row exists
GetCommitFromDB(d, fullSha) ==
    IF fullSha \in DOMAIN d.commits
    THEN [found |-> TRUE, ai_summary |-> d.commits[fullSha].ai_summary]
    ELSE [found |-> FALSE, ai_summary |-> Null]

\* existingCommit && existingCommit.ai_summary
AlreadyAnalyzed(existing) == existing.found /\ Truthy(existing.ai_summary)

\* what the summarization capability answers: it raises, answers without a
\* string content, or answers a text
Responses == {"error", "no_content", " summary ", "  "}

\* String.prototype.trim on the texts of Responses
Trim(text) == CASE text = " summary " -> "summary" [] text = "  " -> "" [] OTHER -> text

\* AnalyzeCommitWithAI that hands on what the capability raised
AnalyzeNoCatch(mistral, resp) ==
    IF ~mistral THEN Null
    ELSE IF resp = "no_content" THEN Null
    ELSE Trim(resp)

\* analyzeCommitWithAI
AnalyzeCommitWithAI(mistral, resp) ==
    IF ~mistral THEN Null
    ELSE IF resp \in {"error", "no_content"} THEN Null
    ELSE Trim(resp)

\* blacklistAuthors.length > 0 && blacklistAuthors.includes(name)
IsBlacklisted(bl, name) == bl # {} /\ name \in bl

\* ------------------------------------------------------------------------
\* Math.round((a / b) * 100) as JavaScript computes it: a / b and the
\* product are IEEE 754 doubles, each rounded to 53 significant bits (to
\* nearest, ties to even); Math.round is exact.  A double is [bits, e]: the
\* 53 bits of its significand, most significant first, and the exponent of
\* the first one: its value is bits * 2^(e - 52).
\* ------------------------------------------------------------------------
SignificandBits == 53

\* the denominators the arithmetic below is exact for (their squares fit
\* the integers of the model checker)
MaxDenominator == 46340

\* the widths the product by 100 is computed on: four pieces of the
\* significand, the first one grown by the factor
LimbBits == 14
TopLimbBits == 21

\* floor(log2(a / b)) for a > 0, b > 0
RECURSIVE Exponent(_, _)
Exponent(a, b) ==
    IF a \div 2 >= b THEN Exponent(a, 2 * b) + 1
    ELSE IF a < b THEN Exponent(2 * a, b) - 1
    ELSE 0

\* 2^j modulo b
RECURSIVE Pow2Mod(_, _)
Pow2Mod(j, b) ==
    IF j = 0 THEN 1 % b
    ELSE LET h == Pow2Mod(j \div 2, b)
             sq == (h * h) % b
         IN  IF j % 2 = 0 THEN sq ELSE (2 * sq) % b

\* the bit of weight 2^p in the binary expansion of a / b
QuotientBit(a, b, p) ==
    IF p >= 0 THEN ((a \div b) \div (2 ^ p)) % 2
    ELSE IF 2 * (((a % b) * Pow2Mod((0 - p) - 1, b)) % b) >= b THEN 1 ELSE 0

\* the number written by n bits, most significant first
ToBits(n, width) == [i \in 1..width |-> (n \div (2 ^ (width - i))) % 2]

\* the number of a bit string (below 2^31)
RECURSIVE BitsValue(_)
BitsValue(x) ==
    IF Len(x) = 0 THEN 0
    ELSE IF Len(x) = 1 THEN x[1]
    ELSE LET half == Len(x) \div 2
         IN  BitsValue(SubSeq(x, 1, half)) * (2 ^ (Len(x) - half))
             + BitsValue(SubSeq(x, half + 1, Len(x)))

\* bits + 1 on as many bits, and the carry out
AddOne(bits) ==
    LET zeros == {i \in 1..Len(bits) : bits[i] = 0}
        last == CHOOSE i \in zeros : \A j \in zeros : j <= i
    IN  IF zeros = {} THEN [bits |-> [i \in 1..Len(bits) |-> 0], carry |-> 1]
        ELSE [bits |-> [i \in 1..Len(bits) |->
                          IF i < last THEN bits[i] ELSE IF i = last THEN 1 ELSE 0],
              carry |-> 0]

\* an exact value x * 2^(e + 1 - Len(x)) with first bit 1 and more than 53
\* bits, rounded to a double; sticky tells that the exact value has more
\* ones below x
RoundToDouble(x, e, sticky) ==
    LET top == SubSeq(x, 1, SignificandBits)
        guard == x[SignificandBits + 1]
        below == sticky \/ \E i \in (SignificandBits + 2)..Len(x) : x[i] = 1
        up == guard = 1 /\ (below \/ top[SignificandBits] = 1)
        next == AddOne(top)
    IN  IF ~up THEN [bits |-> top, e |-> e]
        ELSE IF next.carry = 0 THEN [bits |-> next.bits, e |-> e]
        ELSE [bits |-> [i \in 1..SignificandBits |-> IF i = 1 THEN 1 ELSE 0],
              e |-> e + 1]

\* a / b for integers a > 0 and 0 < b <= MaxDenominator
Quotient(a, b) ==
    LET e == Exponent(a, b)
        x == [i \in 1..(SignificandBits + 1) |-> QuotientBit(a, b, e - (i - 1))]
        last == e - SignificandBits
        sticky == IF last >= 0 THEN (a \div b) % (2 ^ last) # 0 \/ a % b # 0
                  ELSE ((a % b) * Pow2Mod(0 - last, b)) % b # 0
    IN  RoundToDouble(x, e, sticky)

\* the pieces of a product by k, least significant first, the carry of
\* each piece added to the next one and the last piece left whole
RECURSIVE MulLimbs(_, _, _)
MulLimbs(limbs, k, carry) ==
    IF Len(limbs) = 1 THEN <<limbs[1] * k + carry>>
    ELSE LET p == limbs[1] * k + carry
         IN  <<p % (2 ^ LimbBits)>> \o MulLimbs(Tail(limbs), k, p \div (2 ^ LimbBits))

\* x * 100
Times100(x) ==
    LET pad == 4 * LimbBits - SignificandBits
        wide == [i \in 1..(4 * LimbBits) |-> IF i <= pad THEN 0 ELSE x.bits[i - pad]]
        limbs == [n \in 1..4 |->
                    BitsValue(SubSeq(wide, (4 - n) * LimbBits + 1, (5 - n) * LimbBits))]
        p == MulLimbs(limbs, 100, 0)
        all == ToBits(p[4], TopLimbBits) \o ToBits(p[3], LimbBits)
               \o ToBits(p[2], LimbBits) \o ToBits(p[1], LimbBits)
        first == CHOOSE i \in 1..Len(all) : all[i] = 1 /\ \A j \in 1..(i - 1) : all[j] = 0
        product == SubSeq(all, first, Len(all))
    IN  RoundToDouble(product, x.e + (Len(product) - SignificandBits), FALSE)

\* Math.round(x) for 0 < x < 2^31: floor(x + 0.5)
MathRound(x) ==
    LET k == x.e + 1
    IN  IF k < 0 THEN 0
        ELSE BitsValue(SubSeq(x.bits, 1, k)) + x.bits[k + 1]

\* Math.round((a / b) * 100) for integers a >= 0 and 0 < b <= MaxDenominator
RoundPercent(a, b) ==
    IF a = 0 THEN 0 ELSE MathRound(Times100(Quotient(a, b)))

\* ------------------------------------------------------------------------
\* Reconciliation runs.  The code between two awaits runs without
\* interruption by the process it belongs to, but the store is a file that
\* other processes write, and every statement on it (a SELECT, the
\* transaction of saveCommitToDB) stands alone.  So every action below goes
\* from one await or statement on the store to the next one, and makes at
\* most one statement on the store: run.pc names the promise the run waits
\* for, or the statement it is about to make.
\*   "ratelimit" : await fetcher.checkRateLimit()            (main)
\*   "userrepos" : await fetcher.getUserRepos(username)      (main)
\*   "listing"   : await fetcher.getCommits(...)
\*   "lookup"    : fetcher.getCommitFromDB(commit.sha)       (main)
\*   "detail"    : await fetcher.getCommitDetailsWithDiff(...)
\*   "annotate"  : await fetcher.analyzeCommitWithAI(...)
\*   "save"      : fetcher.saveCommitToDB(details, aiSummary), after the
\*                 worker's own lookup
\*   "pause"     : await new Promise(r => setTimeout(r, 100))
\*   "idle"      : no run
\* ------------------------------------------------------------------------
Zero == [h \in Hashes |-> 0]
Inc(f, h) == [f EXCEPT ![h] = @ + 1]


\* no row looked up
NoLookup == [found |-> FALSE, ai_summary |-> Null]

\* run.mode tells which program runs (or ran last), run.progress is the
\* progress of the job the worker serves (NoTime when no job is served),
\* run.existing is existingCommit: main reads it before the detail fetch,
\* the worker after it
Idle == [mode |-> "none", pc |-> "idle", ai |-> FALSE, limit |-> 0, blacklist |-> {},
         reposFrom |-> "REPOS", ri |-> 1, ci |-> 1, progress |-> NoTime,
         existing |-> NoLookup]

\* jobQueue.updateProgress(job.id, Math.round(((i + 1) / repos.length) * 100))
\* at the top of the iteration for Repos[ri]
RepoPercents == [i \in 1..Len(Repos) |-> RoundPercent(i, Len(Repos))]
BatchProgress(mode, ri) ==
    IF mode = "batch" THEN RepoPercents[ri] ELSE NoTime

\* commits.slice(0, limit): a negative limit counts from the end
Slice(list, limit) ==
    LET len == Len(list)
        end == IF limit < 0 THEN Max(len + limit, 0)
               ELSE IF limit < len THEN limit ELSE len
    IN  SubSeq(list, 1, end)

\* the references the loop of a run walks through for its i-th repository
WalkedOf(r, i) ==
    IF r.mode = "batch"
    THEN Slice(listing[Repos[i]], r.limit)
    ELSE listing[Repos[i]]

\* the references the running loop walks through for the current repository
Walked == WalkedOf(run, run.ri)

\* no DELETE request is being served
NoDelete == [pc |-> "idle", authors |-> {}, shas |-> {}]

\* the server runs one handler at a time: no step of its worker falls
\* between the statements of a request it is serving
InTurn == run.mode = "batch" => del.pc = "idle"

\* the first index from ci on at which main's inner loop does not `continue`
\* on the blacklist (the worker has no such test)
RECURSIVE NextReference(_)
NextReference(ci) ==
    IF ci > Len(Walked) THEN ci
    ELSE IF run.mode = "cli" /\ IsBlacklisted(run.blacklist, AuthorOf(Walked[ci]))
    THEN NextReference(ci + 1)
    ELSE ci

\* db.close() by the server's worker or by main
Closed(c, mode) ==
    IF mode = "batch" THEN [c EXCEPT !.server = @ - 1] ELSE [c EXCEPT !.cli = @ - 1]

\* the loops go on from index `from` of the current repository up to the
\* next await or statement on the store: main's lookup of the next
\* reference that is not blacklisted, the worker's detail fetch of the next
\* reference, the listing of the next repository, or db.close() and the end
\* of the run
Continue(from) ==
    LET ci == NextReference(from)
    IN  IF ci <= Len(Walked) /\ run.mode = "cli"
        THEN /\ run' = [run EXCEPT !.ci = ci, !.pc = "lookup", !.existing = NoLookup]
             /\ UNCHANGED <<detailCalls, listCalls, conn, ended>>
        ELSE IF ci <= Len(Walked)
        THEN /\ run' = [run EXCEPT !.ci = ci, !.pc = "detail", !.existing = NoLookup]
             /\ detailCalls' = Inc(detailCalls, Walked[ci])
             /\ UNCHANGED <<listCalls, conn, ended>>
        ELSE IF run.ri < Len(Repos)
        THEN /\ run' = [run EXCEPT !.ri = @ + 1, !.ci = 1, !.pc = "listing",
                                   !.existing = NoLookup,
                                   !.progress = BatchProgress(run.mode, run.ri + 1)]
             /\ listCalls' = listCalls + 1
             /\ UNCHANGED <<detailCalls, conn, ended>>
        ELSE /\ run' = [run EXCEPT !.ri = @ + 1, !.ci = 1, !.pc = "idle",
                                   !.existing = NoLookup]
             /\ conn' = Closed(conn, run.mode)
             /\ ended' = "return"
             /\ UNCHANGED <<detailCalls, listCalls>>

\* what the run pushes on its results after a successful save: the worker
\* an object with details.sha and aiSummary, main its commitData
ResultEntry(mode, h, repo, aiSummary) ==
    IF mode = "batch"
    THEN [sha |-> Short(h), repo |-> repo, author |-> AuthorOf(h), aiSummary |-> aiSummary]
    ELSE CommitData(h, repo)

\* aiSummary when no analyzeCommitWithAI call is made: the annotation of
\* existingCommit when it is truthy, null otherwise
Kept(existing) == IF AlreadyAnalyzed(existing) THEN existing.ai_summary ELSE Null

\* `if (fetcher.saveCommitToDB(details, aiSummary)) results.push(...)`, the
\* same statements in the fetch-commits worker and in main
StoreDetails(h, repo, aiSummary, failAt) ==
    LET saved == SaveCommitToDB(db, CommitData(h, repo), aiSummary, failAt)
    IN  /\ saveCalls' = Inc(saveCalls, h)
        /\ db' = saved.db
        /\ lastSave' = IF saved.ok THEN "ok" ELSE "failed"
        /\ faults' = IF saved.ok THEN faults
                      ELSE faults \cup {[sha |-> h, kind |-> "storage"]}
        /\ results' = IF saved.ok
                      THEN Append(results, ResultEntry(run.mode, h, repo, aiSummary))
                      ELSE results

\* the exploration goes on to another run, to another disturbance
Disturbances == env.failed + env.written
MayStart == runs < MaxRuns /\ runs + Disturbances < MaxEvents
MayDisturb == Disturbances < MaxDisturbances /\ runs + Disturbances < MaxEvents

\* one more call made to fail, one more write by another writer of the store
Failed(e) == [e EXCEPT !.failed = @ + 1]
Written(e) == [e EXCEPT !.written = @ + 1]

\* what every run resets when it starts
RunStarts ==
    /\ runs' = runs + 1
    /\ results' = << >>
    /\ startCommits' = db.commits
    /\ detailCalls' = Zero
    /\ annotateCalls' = Zero
    /\ saveCalls' = Zero
    /\ faults' = {}
    /\ lastSave' = "none"
    /\ UNCHANGED <<db, listing, env, del>>
    /\ UNCHANGED qvars

\* a fetch-commits job starts with a GitHub token configured: the worker
\* opens the store, builds the fetcher, reports the progress of the first
\* repository and calls getCommits.  ai tells whether a Mistral client was
\* built (useAI and a configured key); the worker does not read
\* config.blacklist_authors
StartRun(ai, limit) ==
    /\ run.pc = "idle"
    /\ del.pc = "idle"
    /\ MayStart
    /\ run' = [Idle EXCEPT !.mode = "batch", !.pc = "listing", !.ai = ai,
                           !.limit = limit,
                           !.progress = BatchProgress("batch", 1)]
    /\ listCalls' = 1
    /\ conn' = [conn EXCEPT !.server = @ + 1]
    /\ ended' = "pending"
    /\ RunStarts

\* the message of the Error the worker throws when config.github_token is empty
TokenError == "GitHub token not configured. Please generate a GitHub Personal Access Token at https://github.com/settings/tokens and configure it in the settings."

\* TokenCheck that throws without closing the connection
TokenCheckLeavesOpen(token, open) ==
    IF token THEN [conn |-> open, ended |-> "pending"]
    ELSE [conn |-> open, ended |-> TokenError]

\* `if (!config.github_token) { db.close(); throw ... }` with `open`
\* connections at that point: the connections left and how the worker goes on
TokenCheck(token, open) ==
    IF token THEN [conn |-> open, ended |-> "pending"]
    ELSE [conn |-> open - 1, ended |-> TokenError]

\* a fetch-commits job starts while no GitHub token is configured: the worker
\* opens the store, reads the configuration, closes the store and throws
StartRunNoToken ==
    /\ run.pc = "idle"
    /\ del.pc = "idle"
    /\ MayStart
    /\ LET checked == TokenCheck(FALSE, conn.server + 1)
       IN  /\ conn' = [conn EXCEPT !.server = checked.conn]
           /\ ended' = checked.ended
    /\ run' = [Idle EXCEPT !.mode = "batch"]
    /\ listCalls' = 0
    /\ RunStarts

\* where main takes its repositories from: process.env.REPOS, the
\* repositories of config.github_username, or neither
RepoSources == {"REPOS", "username", "none"}

\* what checkRateLimit rejects with when the remote refuses the token
RateLimitError == "Bad credentials"

\* cli.js starts: initDatabase opens the store and main reads the
\* configuration; without a token it returns at once (the connection stays
\* open), with one it builds the fetcher and calls checkRateLimit.  ai tells
\* whether config.mistral_api_key is set
MainStart(token, ai, bl, reposFrom) ==
    /\ run.pc = "idle"
    /\ MayStart
    /\ conn' = [conn EXCEPT !.cli = @ + 1]
    /\ IF token
       THEN /\ run' = [Idle EXCEPT !.mode = "cli", !.pc = "ratelimit", !.ai = ai,
                                   !.blacklist = bl, !.reposFrom = reposFrom]
            /\ ended' = "pending"
       ELSE /\ run' = [Idle EXCEPT !.mode = "cli"]
            /\ ended' = "return"
    /\ listCalls' = 0
    /\ RunStarts

\* checkRateLimit settles.  Rejected: main rejects, nothing closes the
\* store.  Resolved: main goes on to the first getCommits call (REPOS), to
\* getUserRepos (github_username), or returns (neither)
RateLimitDone(ok) ==
    /\ run.pc = "ratelimit"
    /\ IF ~ok
       THEN /\ run' = [run EXCEPT !.pc = "idle", !.reposFrom = Idle.reposFrom]
            /\ ended' = RateLimitError
            /\ UNCHANGED listCalls
       ELSE IF run.reposFrom = "REPOS"
       THEN /\ run' = [run EXCEPT !.pc = "listing"]
            /\ listCalls' = listCalls + 1
            /\ UNCHANGED ended
       ELSE IF run.reposFrom = "username"
       THEN /\ run' = [run EXCEPT !.pc = "userrepos", !.reposFrom = Idle.reposFrom]
            /\ UNCHANGED <<listCalls, ended>>
       ELSE /\ run' = [run EXCEPT !.pc = "idle", !.reposFrom = Idle.reposFrom]
            /\ ended' = "return"
            /\ UNCHANGED listCalls
    /\ UNCHANGED <<db, listing, results, runs, startCommits, detailCalls,
                   annotateCalls, saveCalls, lastSave, faults, conn, env, del>>
    /\ UNCHANGED qvars

\* getUserRepos settles: with the repositories of the user (Repos), or with
\* [] after a failure it caught, and then main closes the store and ends
UserReposDone(ok) ==
    /\ run.pc = "userrepos"
    /\ IF ok
       THEN /\ run' = [run EXCEPT !.pc = "listing"]
            /\ listCalls' = listCalls + 1
            /\ UNCHANGED <<conn, ended>>
       ELSE /\ run' = [run EXCEPT !.pc = "idle"]
            /\ conn' = Closed(conn, run.mode)
            /\ ended' = "return"
            /\ UNCHANGED listCalls
    /\ UNCHANGED <<db, listing, results, runs, startCommits, detailCalls,
                   annotateCalls, saveCalls, lastSave, faults, env, del>>
    /\ UNCHANGED qvars

\* getCommits settles with the listing of the current repository and the
\* inner loop starts
ListingDone ==
    /\ run.pc = "listing"
    /\ InTurn
    /\ Continue(1)
    /\ UNCHANGED <<db, listing, results, runs, startCommits,
                   annotateCalls, saveCalls, lastSave, faults, env, del>>
    /\ UNCHANGED qvars

\* main looks the reference up: `continue` when the row holds a truthy
\* annotation, the detail fetch otherwise
Lookup ==
    /\ run.pc = "lookup"
    /\ LET h == Walked[run.ci]
           existing == GetCommitFromDB(db, h)
       IN  IF AlreadyAnalyzed(existing)
           THEN Continue(run.ci + 1)
           ELSE /\ run' = [run EXCEPT !.pc = "detail", !.existing = existing]
                /\ detailCalls' = Inc(detailCalls, h)
                /\ UNCHANGED <<listCalls, conn, ended>>
    /\ UNCHANGED <<db, listing, results, runs, startCommits,
                   annotateCalls, saveCalls, lastSave, faults, env, del>>
    /\ UNCHANGED qvars

\* DetailDone that leaves both loops when the detail fetch fails
DetailDoneAborts(detailOk, failAt) ==
    /\ run.pc = "detail"
    /\ InTurn
    /\ LET h == Walked[run.ci]
           repo == Repos[run.ri]
           existing == IF run.mode = "batch" THEN GetCommitFromDB(db, h) ELSE run.existing
       IN  /\ failAt <= 1 + Len(FilesOf(h))
           /\ (~detailOk \/ failAt # 0) => MayDisturb
           /\ env' = IF ~detailOk \/ failAt # 0 THEN Failed(env) ELSE env
           /\ IF ~detailOk
              THEN /\ failAt = 0
                   /\ faults' = faults \cup {[sha |-> h, kind |-> "detail"]}
                   /\ run' = [run EXCEPT !.pc = "pause", !.ri = Len(Repos),
                                         !.ci = Len(WalkedOf(run, Len(Repos))),
                                         !.existing = NoLookup]
                   /\ UNCHANGED <<annotateCalls, saveCalls, db, lastSave, results>>
              ELSE IF ~AlreadyAnalyzed(existing) /\ run.ai
              THEN /\ failAt = 0
                   /\ annotateCalls' = Inc(annotateCalls, h)
                   /\ run' = [run EXCEPT !.pc = "annotate", !.existing = NoLookup]
                   /\ UNCHANGED <<saveCalls, db, lastSave, results, faults>>
              ELSE IF run.mode = "batch"
              THEN /\ failAt = 0
                   /\ run' = [run EXCEPT !.pc = "save", !.existing = existing]
                   /\ UNCHANGED <<annotateCalls, saveCalls, db, lastSave, results, faults>>
              ELSE /\ StoreDetails(h, repo, Kept(existing), failAt)
                   /\ run' = [run EXCEPT !.pc = "pause", !.existing = NoLookup]
                   /\ UNCHANGED annotateCalls
    /\ UNCHANGED <<listing, runs, startCommits, detailCalls, listCalls, conn, ended, del>>
    /\ UNCHANGED qvars

\* getCommitDetailsWithDiff settles, with the details or with null (it
\* catches its errors).  With details the worker looks the row up now, main
\* has looked it up before the fetch.  Unless the row holds a truthy
\* annotation, analyzeCommitWithAI is called when there is a Mistral client.
\* Otherwise the commit is saved, with the annotation of the row or with
\* null: by main in this step (its one statement on the store), by the
\* worker in the next one (SaveDetails), since its lookup and its save are
\* two statements.  failAt numbers the write the storage refuses
DetailDone(detailOk, failAt) ==
    /\ run.pc = "detail"
    /\ InTurn
    /\ LET h == Walked[run.ci]
           repo == Repos[run.ri]
           existing == IF run.mode = "batch" THEN GetCommitFromDB(db, h) ELSE run.existing
       IN  /\ failAt <= 1 + Len(FilesOf(h))
           /\ (~detailOk \/ failAt # 0) => MayDisturb
           /\ env' = IF ~detailOk \/ failAt # 0 THEN Failed(env) ELSE env
           /\ IF ~detailOk
              THEN /\ failAt = 0
                   /\ faults' = faults \cup {[sha |-> h, kind |-> "detail"]}
                   /\ run' = [run EXCEPT !.pc = "pause", !.existing = NoLookup]
                   /\ UNCHANGED <<annotateCalls, saveCalls, db, lastSave, results>>
              ELSE IF ~AlreadyAnalyzed(existing) /\ run.ai
              THEN /\ failAt = 0
                   /\ annotateCalls' = Inc(annotateCalls, h)
                   /\ run' = [run EXCEPT !.pc = "annotate", !.existing = NoLookup]
                   /\ UNCHANGED <<saveCalls, db, lastSave, results, faults>>
              ELSE IF run.mode = "batch"
              THEN /\ failAt = 0
                   /\ run' = [run EXCEPT !.pc = "save", !.existing = existing]
                   /\ UNCHANGED <<annotateCalls, saveCalls, db, lastSave, results, faults>>
              ELSE /\ StoreDetails(h, repo, Kept(existing), failAt)
                   /\ run' = [run EXCEPT !.pc = "pause", !.existing = NoLookup]
                   /\ UNCHANGED annotateCalls
    /\ UNCHANGED <<listing, runs, startCommits, detailCalls, listCalls, conn, ended, del>>
    /\ UNCHANGED qvars

\* the worker saves the commit for which it called no analyzeCommitWithAI,
\* with the annotation its lookup found
SaveDetails(failAt) ==
    /\ run.pc = "save"
    /\ InTurn
    /\ LET h == Walked[run.ci]
       IN  /\ failAt <= 1 + Len(FilesOf(h))
           /\ failAt # 0 => MayDisturb
           /\ env' = IF failAt # 0 THEN Failed(env) ELSE env
           /\ StoreDetails(h, Repos[run.ri], Kept(run.existing), failAt)
    /\ run' = [run EXCEPT !.pc = "pause", !.existing = NoLookup]
    /\ UNCHANGED <<listing, runs, startCommits, detailCalls, annotateCalls,
                   listCalls, conn, ended, del>>
    /\ UNCHANGED qvars

\* analyzeCommitWithAI settles (it never rejects): the commit is saved with
\* what it returned
AnnotateDone(resp, failAt) ==
    /\ run.pc = "annotate"
    /\ InTurn
    /\ LET h == Walked[run.ci]
       IN  /\ failAt <= 1 + Len(FilesOf(h))
           /\ failAt # 0 => MayDisturb
           /\ env' = IF failAt # 0 THEN Failed(env) ELSE env
           /\ StoreDetails(h, Repos[run.ri], AnalyzeCommitWithAI(run.ai, resp), failAt)
    /\ run' = [run EXCEPT !.pc = "pause"]
    /\ UNCHANGED <<listing, runs, startCommits, detailCalls, annotateCalls,
                   listCalls, conn, ended, del>>
    /\ UNCHANGED qvars

\* the 100 ms pause after a reference is over and the loops go on
PauseDone ==
    /\ run.pc = "pause"
    /\ InTurn
    /\ Continue(run.ci + 1)
    /\ UNCHANGED <<db, listing, results, runs, startCommits,
                   annotateCalls, saveCalls, lastSave, faults, env, del>>
    /\ UNCHANGED qvars

\* the annotations a run can hand to saveCommitToDB
Summaries == {AnalyzeCommitWithAI(TRUE, resp) : resp \in Responses}

\* another process that shares the store file (cli.js started by hand while
\* the server runs, or the other way round) saves a commit of the remote:
\* its saveCommitToDB call, with the annotation it has arrived at
PeerSave(h, repo, aiSummary) ==
    /\ MayDisturb
    /\ \E i \in 1..Len(listing[repo]) : listing[repo][i] = h
    /\ db' = SaveCommitToDB(db, CommitData(h, repo), aiSummary, 0).db
    /\ env' = Written(env)
    /\ UNCHANGED <<listing, run, results, runs, startCommits, detailCalls,
                   annotateCalls, saveCalls, lastSave, listCalls, faults, conn, ended, del>>
    /\ UNCHANGED qvars

\* the author lists sent to DELETE /api/commits/by-authors
AuthorLists == {{"bob"}, {"alice", "Bob"}}

\* what the delete statements leave unchanged
DeleteFrame ==
    /\ UNCHANGED <<listing, run, results, runs, startCommits, detailCalls,
                   annotateCalls, saveCalls, lastSave, listCalls, faults, conn, ended>>
    /\ UNCHANGED qvars

\* deleteCommitsByAuthors(authors) is three statements on the store with no
\* transaction around them; the server makes them without a wait in between
\* (no step of its worker falls between them), other processes write in
\* between.  The first one: SELECT full_sha FROM commits WHERE author IN
\* (...); with no such commit the function returns 0
DeleteCommitsByAuthors(authors) ==
    /\ del.pc = "idle"
    /\ ~(run.mode = "batch" /\ run.pc = "save")
    /\ MayDisturb
    /\ LET commitsToDelete == {h \in DOMAIN db.commits : db.commits[h].author \in authors}
       IN  del' = IF authors = {} \/ commitsToDelete = {} THEN NoDelete
                  ELSE [pc |-> "files", authors |-> authors, shas |-> commitsToDelete]
    /\ env' = Written(env)
    /\ UNCHANGED db
    /\ DeleteFrame

\* DELETE FROM commit_files WHERE commit_sha IN (the hashes selected)
DeleteFiles ==
    /\ del.pc = "files"
    /\ db' = [db EXCEPT !.files = WithoutCommits(db.files, del.shas)]
    /\ del' = [del EXCEPT !.pc = "commits"]
    /\ UNCHANGED env
    /\ DeleteFrame

\* DELETE FROM commits WHERE author IN (...): the commits these authors
\* have by now.  Their file rows go with them on the server's tables (ON
\* DELETE CASCADE); on cli.js's tables a file row that is left makes the
\* statement fail, and a failed statement changes nothing
DeleteCommits ==
    /\ del.pc = "commits"
    /\ LET victims == {h \in DOMAIN db.commits : db.commits[h].author \in del.authors}
           kept == DOMAIN db.commits \ victims
           files2 == IF db.schema = "server" THEN WithoutCommits(db.files, victims)
                     ELSE db.files
           orphans == {r \in DOMAIN files2 : r.commit_sha \notin kept}
       IN  db' = IF orphans # {} THEN db
                 ELSE [db EXCEPT !.files = files2,
                                 !.commits = [h \in kept |-> db.commits[h]]]
    /\ del' = NoDelete
    /\ UNCHANGED env
    /\ DeleteFrame

\* the remote listings explored: the colliding pair in one repository or
\* in two, more references than the cap, an empty repository
Listings ==
    { [r \in RepoNames |-> IF r = "o/r1" THEN <<H3, H2>> ELSE <<H1>>],
      [r \in RepoNames |-> IF r = "o/r1" THEN <<H2>> ELSE <<H3, H1>>],
      [r \in RepoNames |-> IF r = "o/r1" THEN <<H3, H1, H2>> ELSE << >>] }

Blacklists == {{}, {"bob"}}

\* the payload limits explored (the route checks repos only): a negative
\* one and the caps up to MaxLimit; the writes one saveCommitToDB call can make
Limits == {0 - 1} \cup 1..MaxLimit
MaxWrites == 1 + Len(FilesOf(H1))

\* ------------------------------------------------------------------------
\* updateProgress, and the fetch-all worker: cli.js run as a child process
\* whose events settle the promise the worker returned
\* ------------------------------------------------------------------------
\* UpdateProgress that emits the event for an unknown id as well
UpdateProgressNoTest(js, jobId, progress) ==
    IF jobId \in DOMAIN js
    THEN [jobs |-> [js EXCEPT ![jobId].progress = progress],
          emits |-> <<[id |-> jobId, progress |-> progress]>>]
    ELSE [jobs |-> js, emits |-> <<[id |-> jobId, progress |-> progress]>>]

\* updateProgress(jobId, progress): the job map afterwards and the
\* 'job-progress' events emitted
UpdateProgress(js, jobId, progress) ==
    IF jobId \in DOMAIN js
    THEN [jobs |-> [js EXCEPT ![jobId].progress = progress],
          emits |-> <<[id |-> jobId, progress |-> progress]>>]
    ELSE [jobs |-> js, emits |-> << >>]

\* a call of updateProgress, by a worker or by any other holder of the queue
UpdateProgressCall(jobId, progress) ==
    /\ LET u == UpdateProgress(jobs, jobId, progress)
       IN  /\ jobs' = u.jobs
           /\ lastCall' = [id |-> jobId, progress |-> progress, emitted |-> u.emits # << >>]
    /\ UNCHANGED <<queue, processing, worker, now, nextId, running, peak, started,
                   escaped, swept, children>>
    /\ UNCHANGED fvars

\* the percentages passed to updateProgress
ProgressValues == {50, 100}

\* the chunks the child writes
StdoutTexts == {"repo 1/2", "limit 30/20", "23/40", "done"}
StderrTexts == {"E1", "E2"}
\* `${code}` of the close event: the exit status, or null after a signal
ExitCodes == {"0", "1", "null"}
\* a child that could not be spawned: the 'error' event, then 'close' with
\* the negative errno
SpawnError == "spawn node ENOENT"
SpawnFailedCode == "-2"

\* String.prototype.includes
Contains(text, part) ==
    \/ part = ""
    \/ \E i \in 1..(Len(text) - Len(part) + 1) : SubSeq(text, i, i + Len(part) - 1) = part

\* the character at position i, "" outside the text
CharAt(text, i) == IF i \in 1..Len(text) THEN SubSeq(text, i, i) ELSE ""

\* \d
Digits == "0123456789"
IsDigit(ch) == Len(ch) = 1 /\ Contains(Digits, ch)
DigitValue(ch) == CHOOSE d \in 0..9 : CharAt(Digits, d + 1) = ch

\* \d+ is greedy: the last position of the run of digits that holds i
RECURSIVE RunEnd(_, _)
RunEnd(text, i) == IF IsDigit(CharAt(text, i + 1)) THEN RunEnd(text, i + 1) ELSE i

\* parseInt on a string of digits
RECURSIVE ParseInt(_)
ParseInt(digits) ==
    IF digits = "" THEN 0
    ELSE 10 * ParseInt(SubSeq(digits, 1, Len(digits) - 1))
         + DigitValue(CharAt(digits, Len(digits)))

\* text.match(/(\d+)\/(\d+)/): the two groups of the leftmost match, << >>
\* when nothing matches
ProgressMatch(text) ==
    LET starts == {i \in 1..Len(text) :
                     /\ IsDigit(CharAt(text, i))
                     /\ CharAt(text, RunEnd(text, i) + 1) = "/"
                     /\ IsDigit(CharAt(text, RunEnd(text, i) + 2))}
    IN  IF starts = {} THEN << >>
        ELSE LET i == CHOOSE x \in starts : \A y \in starts : x <= y
                 e == RunEnd(text, i)
             IN  <<SubSeq(text, i, e), SubSeq(text, e + 2, RunEnd(text, e + 2))>>

\* Infinity (N/0) and NaN (0/0): Math.round returns them as they are
NonFinite == 0 - 2

\* the progress the stdout handler passes to updateProgress for a chunk,
\* NoTime when the chunk does not match
ProgressOf(text) ==
    LET m == ProgressMatch(text)
    IN  IF m = << >> THEN NoTime
        ELSE LET current == ParseInt(m[1])
                 total == ParseInt(m[2])
             IN  IF total = 0 THEN NonFinite ELSE RoundPercent(current, total)

\* the progress of every chunk explored
ChunkProgress == [text \in StdoutTexts |-> ProgressOf(text)]

\* `Script exited with code ${code}: ${errorOutput}`
ExitMessage(code, errorOutput) == "Script exited with code " \o code \o ": " \o errorOutput

\* spawn(...): the child runs, nothing captured, the promise is pending;
\* value is what the promise was rejected with, calls counts the resolve
\* and reject calls
NewChild == [phase |-> "running", output |-> "", errorOutput |-> "", code |-> "",
             promise |-> "pending", value |-> "", calls |-> 0]

\* SettlePromise where a later call overrides an earlier one
SettlePromiseAgain(c, state, value) ==
    [c EXCEPT !.promise = state, !.value = value, !.calls = @ + 1]

\* resolve(...) / reject(...): only the first call settles the promise
SettlePromise(c, state, value) ==
    IF c.promise = "pending"
    THEN [c EXCEPT !.promise = state, !.value = value, !.calls = @ + 1]
    ELSE [c EXCEPT !.calls = @ + 1]

\* every job the queue handed to the worker has its child process
WithSpawned(ch, ids) ==
    [id \in DOMAIN ch \cup ids |-> IF id \in DOMAIN ch THEN ch[id] ELSE NewChild]

\* POST /api/fetch/all: addJob('fetch-all', {}); a dispatched job spawns cli.js
AddFetchAll ==
    /\ nextId <= MaxChildJobs
    /\ AddJob("fetch-all", [outcome |-> "return", sync |-> FALSE])
    /\ children' = WithSpawned(children, running')
    /\ UNCHANGED lastCall

\* child.stdout.on('data')
ChildStdout(jobId, text) ==
    /\ children[jobId].phase = "running"
    /\ Len(children[jobId].output) + Len(text) <= MaxOutputLen
    /\ children' = [children EXCEPT ![jobId].output = @ \o text]
    /\ IF ChunkProgress[text] # NoTime
       THEN LET u == UpdateProgress(jobs, jobId, ChunkProgress[text])
            IN  /\ jobs' = u.jobs
                /\ lastCall' = [id |-> jobId, progress |-> ChunkProgress[text],
                                emitted |-> u.emits # << >>]
       ELSE UNCHANGED <<jobs, lastCall>>
    /\ UNCHANGED <<queue, processing, worker, now, nextId, running, peak, started,
                   escaped, swept>>
    /\ UNCHANGED fvars

\* child.stderr.on('data')
ChildStderr(jobId, text) ==
    /\ children[jobId].phase = "running"
    /\ Len(children[jobId].errorOutput) + Len(text) <= MaxErrorLen
    /\ children' = [children EXCEPT ![jobId].errorOutput = @ \o text]
    /\ UNCHANGED <<jobs, queue, processing, worker, now, nextId, running, peak, started,
                   escaped, swept, lastCall>>
    /\ UNCHANGED fvars

\* after a resolve or reject call that left the child as c: when the call
\* settled the promise, processNext resumes with the outcome, and the job it
\* dispatches next spawns its own child
AfterSettleCall(jobId, c, out) ==
    /\ IF c.promise # children[jobId].promise \/ c.value # children[jobId].value
       THEN LET q == Settle(QState, jobId, out, now)
            IN  /\ SetQueue(q)
                /\ children' = WithSpawned([children EXCEPT ![jobId] = c], q.running)
       ELSE /\ children' = [children EXCEPT ![jobId] = c]
            /\ UNCHANGED <<jobs, queue, processing, running, peak, started, escaped>>
    /\ UNCHANGED <<worker, now, nextId, swept, lastCall>>
    /\ UNCHANGED fvars

\* child.on('error'): the child could not be spawned
ChildError(jobId) ==
    /\ children[jobId].phase = "running"
    /\ children[jobId].output = "" /\ children[jobId].errorOutput = ""
    /\ AfterSettleCall(jobId,
                       SettlePromise([children[jobId] EXCEPT !.phase = "errored"],
                                     "rejected", SpawnError),
                       SpawnError)

\* child.on('close'); the captured output is not kept after it
ChildClose(jobId, code) ==
    /\ \/ children[jobId].phase = "running" /\ code \in ExitCodes
       \/ children[jobId].phase = "errored" /\ code = SpawnFailedCode
    /\ LET c == [children[jobId] EXCEPT !.phase = "closed", !.code = code,
                                        !.output = "", !.errorOutput = ""]
           message == ExitMessage(code, children[jobId].errorOutput)
       IN  IF code = "0"
           THEN AfterSettleCall(jobId, SettlePromise(c, "resolved", ""), "return")
           ELSE AfterSettleCall(jobId, SettlePromise(c, "rejected", message), message)

\* no run, empty tables
FIdle ==
    /\ db = EmptyDb("server")
    /\ listing = [r \in RepoNames |-> << >>]
    /\ run = Idle
    /\ results = << >>
    /\ runs = 0
    /\ startCommits = << >>
    /\ detailCalls = Zero
    /\ annotateCalls = Zero
    /\ saveCalls = Zero
    /\ lastSave = "none"
    /\ listCalls = 0
    /\ faults = {}
    /\ conn = [server |-> 0, cli |-> 0]
    /\ ended = "pending"
    /\ env = [failed |-> 0, written |-> 0]
    /\ del = NoDelete

FInit ==
    /\ db \in {EmptyDb(schema) : schema \in Schemas}
    /\ listing \in Listings
    /\ run = Idle
    /\ results = << >>
    /\ runs = 0
    /\ startCommits = << >>
    /\ detailCalls = Zero
    /\ annotateCalls = Zero
    /\ saveCalls = Zero
    /\ lastSave = "none"
    /\ listCalls = 0
    /\ faults = {}
    /\ conn = [server |-> 0, cli |-> 0]
    /\ ended = "pending"
    /\ env = [failed |-> 0, written |-> 0]
    /\ del = NoDelete

QInit ==
    /\ jobs = << >>
    /\ queue = << >>
    /\ processing = FALSE
    /\ worker = FALSE
    /\ now = 0
    /\ nextId = 1
    /\ running = {}
    /\ peak = 0
    /\ started = << >>
    /\ escaped = FALSE
    /\ swept = {}

\* no child process, no updateProgress call yet
CInit ==
    /\ children = << >>
    /\ lastCall = NoCall

vars == <<qvars, fvars, cvars>>

Init == QInit /\ FIdle /\ CInit

Next ==
    \/ SetWorker /\ UNCHANGED cvars
    \/ \E inp \in JobInputs : AddJob(inp.type, inp.data) /\ UNCHANGED cvars
    \/ WorkerSettles /\ UNCHANGED cvars
    \/ CleanupOldJobs /\ UNCHANGED cvars
    \/ Tick /\ UNCHANGED cvars

Spec == Init /\ [][Next]_vars

InitFetch == QInit /\ FInit /\ CInit

RunStep ==
    \/ \E ai \in BOOLEAN, limit \in Limits : StartRun(ai, limit)
    \/ StartRunNoToken
    \/ \E token \in BOOLEAN, ai \in BOOLEAN, bl \in Blacklists, reposFrom \in RepoSources :
         MainStart(token, ai, bl, reposFrom)
    \/ \E ok \in BOOLEAN : RateLimitDone(ok)
    \/ \E ok \in BOOLEAN : UserReposDone(ok)
    \/ ListingDone
    \/ Lookup
    \/ \E detailOk \in BOOLEAN, failAt \in 0..MaxWrites : DetailDone(detailOk, failAt)
    \/ \E failAt \in 0..MaxWrites : SaveDetails(failAt)
    \/ \E resp \in Responses, failAt \in 0..MaxWrites : AnnotateDone(resp, failAt)
    \/ PauseDone
    \/ \E h \in Hashes, repo \in RepoNames, aiSummary \in Summaries :
         PeerSave(h, repo, aiSummary)
    \/ \E authors \in AuthorLists : DeleteCommitsByAuthors(authors)
    \/ DeleteFiles
    \/ DeleteCommits

NextFetch == RunStep /\ UNCHANGED cvars

SpecFetch == InitFetch /\ [][NextFetch]_vars

\* POST /api/fetch/commits again and again with the same payload: useAI set,
\* a Mistral key configured, the same cap; the count of runs stops at MaxRuns
RerunBatch(limit) ==
    /\ run.pc = "idle"
    /\ del.pc = "idle"
    /\ runs > 0 => limit = run.limit
    /\ run' = [Idle EXCEPT !.mode = "batch", !.pc = "listing", !.ai = TRUE,
                           !.limit = limit, !.progress = BatchProgress("batch", 1)]
    /\ runs' = IF runs < MaxRuns THEN runs + 1 ELSE runs
    /\ results' = << >>
    /\ startCommits' = db.commits
    /\ detailCalls' = Zero
    /\ annotateCalls' = Zero
    /\ saveCalls' = Zero
    /\ listCalls' = 1
    /\ faults' = {}
    /\ conn' = [conn EXCEPT !.server = @ + 1]
    /\ ended' = "pending"
    /\ lastSave' = "none"
    /\ UNCHANGED <<db, listing, env, del>>
    /\ UNCHANGED qvars

\* repeated jobs against a remote, a summarizer and a store that never fail
RepeatStep ==
    \/ \E limit \in 1..MaxLimit : RerunBatch(limit)
    \/ ListingDone
    \/ DetailDone(TRUE, 0)
    \/ SaveDetails(0)
    \/ AnnotateDone(" summary ", 0)
    \/ PauseDone

NextRepeat == RepeatStep /\ UNCHANGED cvars

\* the queue serving fetch-all jobs
NextChild ==
    \/ SetWorker /\ UNCHANGED cvars
    \/ AddFetchAll
    \/ \E jobId \in DOMAIN children, text \in StdoutTexts : ChildStdout(jobId, text)
    \/ \E jobId \in DOMAIN children, text \in StderrTexts : ChildStderr(jobId, text)
    \/ \E jobId \in DOMAIN children : ChildError(jobId)
    \/ \E jobId \in DOMAIN children, code \in ExitCodes \cup {SpawnFailedCode} :
         ChildClose(jobId, code)

SpecChild == Init /\ [][NextChild]_vars

\* the jobs explored with updateProgress: one that succeeds, one that fails
ProgressJobs == [type : {"fetch-commits"},
                 data : [outcome : {"return", "error_msg"}, sync : {FALSE}]]

\* the queue with updateProgress called at any moment, for a job in any
\* status and for an id the queue does not hold (0)
NextProgress ==
    \/ SetWorker /\ UNCHANGED cvars
    \/ \E inp \in ProgressJobs : AddJob(inp.type, inp.data) /\ UNCHANGED cvars
    \/ WorkerSettles /\ UNCHANGED cvars
    \/ \E jobId \in {0} \cup DOMAIN jobs, progress \in ProgressValues :
         UpdateProgressCall(jobId, progress)

SpecProgress == Init /\ [][NextProgress]_vars

\* the queue as a component: addJob and setWorker called in any order
NextAnyOrder ==
    \/ SetWorker /\ UNCHANGED cvars
    \/ \E inp \in JobInputs : AddJobCall(inp.type, inp.data) /\ UNCHANGED cvars
    \/ WorkerSettles /\ UNCHANGED cvars

\* the worker is registered at some point and every worker invocation settles
SpecAnyOrder ==
    /\ Init
    /\ [][NextAnyOrder]_vars
    /\ WF_vars(SetWorker /\ UNCHANGED cvars)
    /\ WF_vars(WorkerSettles /\ UNCHANGED cvars)

\* every job that was posted runs to its end and another one is posted
SpecRepeat == InitFetch /\ [][NextRepeat]_vars /\ WF_vars(NextRepeat)

\* ------------------------------------------------------------------------
\* Properties of the job queue (Spec)
\* ------------------------------------------------------------------------
Terminal == {"completed", "failed"}
WithStatus(st) == {id \in DOMAIN jobs : jobs[id].status = st}
Started == {started[i] : i \in 1..Len(started)}

\* C1: at most one worker invocation is in flight at any time, at most one
\* job has status 'processing', and no job was ever handed to the worker
\* while an earlier promise was unsettled (the in-flight count never passed 1).
C1_OneAtATime ==
    /\ Cardinality(running) <= 1
    /\ peak <= 1
    /\ Cardinality(WithStatus("processing")) <= 1

\* a second job is running while a third waits, after the first one settled
C1_Witness ==
    /\ Len(started) = 2
    /\ running = {2}
    /\ queue = <<3>>
    /\ peak = 1

\* C2: jobs are handed to the worker in the order of their addJob calls:
\* the k-th job started is the k-th job added, whatever became of the jobs
\* before it; exactly the started jobs carry startedAt, and start times follow
\* the same order.
C2_StrictFifo ==
    /\ \A i \in 1..Len(started) : started[i] = i
    /\ \A id \in DOMAIN jobs : (jobs[id].startedAt # NoTime) <=> (id \in Started)
    /\ \A a, b \in DOMAIN jobs :
         (a < b /\ b \in Started) => jobs[a].startedAt <= jobs[b].startedAt

\* three jobs started in order, the first failed, the second completed later
C2_Witness ==
    /\ started = <<1, 2, 3>>
    /\ DOMAIN jobs = {1, 2, 3}
    /\ jobs[1].status = "failed"
    /\ jobs[2].status = "completed"
    /\ jobs[2].completedAt > jobs[1].completedAt
    /\ jobs[3].status = "processing"

\* what a job record of each status carries, as C3 states it
C3_Carries(job) ==
    /\ job.status = "completed" => (job.result # NoResult /\ job.error = Undefined)
    /\ job.status = "failed" => (job.error # Undefined /\ job.result = NoResult)

\* the status changes C3 allows in one step of the queue; a job that is
\* dispatched and raises at once shows pending -> failed with startedAt set
C3_Moves(old, new) ==
    \/ new.status = old.status
    \/ old.status = "pending" /\ new.status = "processing"
    \/ old.status = "processing" /\ new.status \in Terminal
    \/ old.status = "pending" /\ new.status \in Terminal /\ new.startedAt # NoTime

\* C3: a job's status only moves pending -> processing -> completed | failed,
\* a terminal status never changes, a completed job carries a result and no
\* error, a failed job carries an error and no result.
C3_Lifecycle ==
    /\ [](\A id \in DOMAIN jobs : C3_Carries(jobs[id]))
    /\ [][\A id \in DOMAIN jobs \cap DOMAIN jobs' :
            /\ C3_Moves(jobs[id], jobs'[id])
            /\ jobs[id].status \in Terminal => jobs'[id] = jobs[id]]_vars

\* the error text C4 expects for a raised value
C4_Expected(thrown) == IF thrown = "error_msg" THEN "boom" ELSE "Unknown error"

\* C4: whatever the worker raised for a job, once the invocation is over the
\* job is 'failed' with completedAt set and error the message or the fallback
\* text, and no exception has left the queue.
C4_EveryRaiseRecorded ==
    /\ ~escaped
    /\ \A id \in DOMAIN jobs :
         (id \in Started /\ id \notin running /\ jobs[id].data.outcome \in Thrown)
         => /\ jobs[id].status = "failed"
            /\ jobs[id].completedAt # NoTime
            /\ jobs[id].error = C4_Expected(jobs[id].data.outcome)

\* the jobs C5 tells a sweep at time t to remove
C5_Expired(job, t) ==
    /\ job.status \in Terminal
    /\ job.completedAt # NoTime
    /\ t - job.completedAt > OneHourMs

\* C5: a job leaves the map only when it is terminal and completed more than
\* one hour ago; a sweep removes every such job and leaves every other job as
\* it was (status, result, error and all).
C5_SweepExact ==
    [][/\ \A id \in DOMAIN jobs : id \notin DOMAIN jobs' => C5_Expired(jobs[id], now)
       /\ CleanupOldJobs =>
            /\ \A id \in DOMAIN jobs : C5_Expired(jobs[id], now) => id \notin DOMAIN jobs'
            /\ \A id \in DOMAIN jobs \cap DOMAIN jobs' : jobs'[id] = jobs[id]]_vars

\* a sweep has removed one job and kept a terminal job that is exactly one
\* hour old and a job that is still running
C5_Witness ==
    /\ swept # {}
    /\ \E id \in DOMAIN jobs : /\ jobs[id].status \in Terminal
                               /\ now - jobs[id].completedAt = OneHourMs
    /\ WithStatus("processing") # {}

\* C6: an addJob call, in any queue state, creates the job with the given
\* type and payload and createdAt set, appends its id to the wait-list (from
\* which the dispatch attempt of an idle queue takes it at once), does not
\* wait for the worker, and leaves every other job as it was.
C6_AddJobFrame ==
    [][\A inp \in JobInputs :
         AddJob(inp.type, inp.data) =>
           LET id == nextId
           IN  /\ id \notin DOMAIN jobs
               /\ id \in DOMAIN jobs'
               /\ jobs'[id].type = inp.type
               /\ jobs'[id].data = inp.data
               /\ jobs'[id].createdAt = now
               /\ jobs'[id].createdAt # NoTime
               /\ \/ queue' = Append(queue, id)
                  \/ /\ ~processing
                     /\ queue = << >>
                     /\ queue' = << >>
                     /\ started' = Append(started, id)
               /\ ~inp.data.sync => jobs'[id].status \in {"pending", "processing"}
               /\ \A other \in DOMAIN jobs :
                    other \in DOMAIN jobs' /\ jobs'[other] = jobs[other]]_vars

\* a job was added to a busy queue behind two waiting jobs
C6_Witness ==
    /\ processing
    /\ Len(queue) = 2
    /\ running # {}
    /\ \A i \in 1..Len(queue) : jobs[queue[i]].status = "pending"

\* ------------------------------------------------------------------------
\* Properties of reconciliation and the commit store (SpecFetch)
\* ------------------------------------------------------------------------
Names(s) == {s[i] : i \in 1..Len(s)}

\* no other writer has written the store since the start
Alone == env.written = 0

\* C7: in a run of either kind, a commit that was stored with an annotation
\* when the run started gets no detail-fetch call, no annotation call and no
\* saveCommitToDB call (no other writer touching the store meanwhile).
C7_AnnotatedUntouched ==
    Alone
    => \A h \in DOMAIN startCommits :
          Truthy(startCommits[h].ai_summary)
          => detailCalls[h] = 0 /\ annotateCalls[h] = 0 /\ saveCalls[h] = 0

\* C8: no run of either kind writes a commit whose author name is an entry
\* of the configured blacklist.  The fetch-commits worker does not read the
\* configuration, so what it writes is the same under every blacklist.
C8_NoBlacklistedWrite ==
    \A i \in 1..Len(results) :
        IF run.mode = "batch"
        THEN \A bl \in Blacklists : ~IsBlacklisted(bl, results[i].author)
        ELSE ~IsBlacklisted(run.blacklist, results[i].author)

\* the file rows of commit h in the store, by filename
C9_Filenames(d, h) == {r.filename : r \in {x \in DOMAIN d.files : x.commit_sha = h}}

\* no commit is stored with only part of its file rows, and no file row is
\* stored without its commit (the file rows of a commit are all absent only
\* between the statements of deleteCommitsByAuthors, which is no save)
C9_Whole(d) ==
    \A h \in Hashes :
        IF h \in DOMAIN d.commits
        THEN C9_Filenames(d, h) \in {Names(FilesOf(h)), {}}
        ELSE C9_Filenames(d, h) = {}

\* a save of commit h that went through: by the run, or by another process
\* (the step of another writer, no DELETE statement, that wrote h)
C9_Saved(h) ==
    \/ saveCalls'[h] = saveCalls[h] + 1 /\ lastSave' = "ok"
    \/ /\ env'.written # env.written
       /\ db' # db
       /\ h \in DOMAIN db'.commits
       /\ \/ h \notin DOMAIN db.commits
          \/ db'.commits[h] # db.commits[h]
          \/ C9_Filenames(db', h) # C9_Filenames(db, h)

\* C9: a saveCommitToDB call that fails at any of its writes leaves the
\* store exactly as it was before the call; one that goes through leaves the
\* commit row with all of its file rows; and the store never shows a
\* commit row with only part of its file rows.
C9_SaveAtomic ==
    /\ []C9_Whole(db)
    /\ [][(saveCalls' # saveCalls /\ lastSave' = "failed") => db' = db]_vars
    /\ [][\A h \in Hashes :
            C9_Saved(h) => /\ h \in DOMAIN db'.commits
                           /\ C9_Filenames(db', h) = Names(FilesOf(h))]_vars

\* the save of the two-file commit H1 failed and the store holds other commits
C9_Witness ==
    /\ lastSave = "failed"
    /\ saveCalls[H1] = 1
    /\ H1 \notin DOMAIN db.commits
    /\ DOMAIN db.commits # {}

\* C10: when a run with annotation enabled is over, every commit that was
\* stored with a null annotation at its start and was processed by it got
\* exactly one annotation call and still has its (one) commit row (no other
\* writer touching the store meanwhile).
C10_AnnotatedInPlace ==
    (Alone /\ ended = "return" /\ run.ai)
    => \A h \in DOMAIN startCommits :
          (startCommits[h].ai_summary = Null /\ saveCalls[h] > 0)
          => annotateCalls[h] = 1 /\ h \in DOMAIN db.commits

\* ------------------------------------------------------------------------
\* Properties of the batch-fetch job (SpecFetch)
\* ------------------------------------------------------------------------
RECURSIVE SumOver(_, _)
SumOver(f, S) ==
    IF S = {} THEN 0
    ELSE LET h == CHOOSE x \in S : TRUE IN f[h] + SumOver(f, S \ {h})

\* the result entries of the run for the given commits: an entry holds the
\* short hash, which the author tells apart here
ResultsFor(S) ==
    {i \in 1..Len(results) :
       \E h \in S : results[i].sha = Short(h) /\ results[i].author = AuthorOf(h)}

\* the loop over the i-th repository is over
RepoDone(i) == run.ri > i

\* the run is (or the last run was) a fetch-commits job
BatchRun == run.mode = "batch"

\* the cap of the job: its payload limit, a limit below zero allowing nothing
C11_Cap == Max(run.limit, 0)

C11_Repo(i) ==
    LET refs == listing[Repos[i]]
        within == Names(SubSeq(refs, 1, IF C11_Cap < Len(refs) THEN C11_Cap ELSE Len(refs)))
        beyond == Names(refs) \ within
        clean == /\ \A f \in faults : f.sha \notin within
                 /\ \A h \in Names(refs) : h \notin DOMAIN startCommits
    IN  /\ SumOver(detailCalls, Names(refs)) <= C11_Cap
        /\ \A h \in beyond :
             /\ detailCalls[h] = 0
             /\ annotateCalls[h] = 0
             /\ saveCalls[h] = 0
             /\ ResultsFor({h}) = {}
        /\ (RepoDone(i) /\ Len(refs) > C11_Cap /\ clean)
           => /\ SumOver(saveCalls, within) = C11_Cap
              /\ Cardinality(ResultsFor(within)) = C11_Cap
              /\ ResultsFor(Names(refs)) = ResultsFor(within)

\* C11: in a fetch-commits job the detail fetches made for one repository
\* never number more than the cap (the payload limit); a reference beyond
\* the cap is not detail-fetched, annotated, written or reported; and when
\* the listing holds more new references than the cap and nothing fails,
\* exactly cap records are written and reported for the repository.
C11_CapRespected ==
    BatchRun => \A i \in 1..Len(Repos) : C11_Repo(i)

\* every reference the remote lists is stored with an annotation
AllProcessed ==
    \A r \in RepoNames : \A h \in Names(listing[r]) :
        h \in DOMAIN db.commits /\ Truthy(db.commits[h].ai_summary)

\* C12: with a fixed remote listing, annotation enabled and no failing call,
\* fetch-commits jobs repeated with the same cap eventually bring every listed
\* reference to the processed state (stored with an annotation), those
\* past the first cap positions of the listing included.
C12_AllEventuallyProcessed == <>AllProcessed

\* a write of the run failed
StorageFault == \E f \in faults : f.kind = "storage"

\* C13: a fetch-commits job in which a saveCommitToDB call failed ends with
\* status 'failed', never 'completed'.
C13_StorageFailureFailsJob ==
    (BatchRun /\ ended # "pending" /\ StorageFault)
    => JobAfter(ended).status = "failed"

\* the references the loops of the run are through
Passed ==
    UNION {Names(WalkedOf(run, i)) : i \in {j \in 1..Len(Repos) : j < run.ri}}
    \cup (IF run.ri <= Len(Repos)
             /\ run.pc \in {"lookup", "detail", "annotate", "save", "pause"}
          THEN Names(SubSeq(Walked, 1, IF run.pc = "pause" THEN run.ci ELSE run.ci - 1))
          ELSE {})

\* the annotation call of a fetch-commits job that meets the given answer:
\* the commit is written with the given annotation and timestamp, reported
\* with it, and the loop goes on
C14_Stored(resp, summary, stamp) ==
    (BatchRun /\ AnnotateDone(resp, 0) /\ lastSave' = "ok")
    => LET h == Walked[run.ci]
       IN  /\ h \in DOMAIN db'.commits
           /\ db'.commits[h].ai_summary = summary
           /\ db'.commits[h].ai_analyzed_at = stamp
           /\ results'[Len(results')].sha = Short(h)
           /\ results'[Len(results')].aiSummary = summary
           /\ run'.pc = "pause" /\ run'.ri = run.ri /\ run'.ci = run.ci
           /\ ended' = "pending"

\* C14: when the summarization capability raises for a commit of a
\* fetch-commits job with annotation enabled, the job does not fail, the
\* commit is written with a null annotation and a null annotation timestamp,
\* and every other commit of the batch still gets its annotation call and is
\* written with the annotation it received.
C14_AnnotationFailureContained ==
    /\ [][C14_Stored("error", Null, Null)]_vars
    /\ [][C14_Stored(" summary ", "summary", "timestamp")]_vars
    /\ []((BatchRun /\ listCalls > 0) => ended \in {"pending", "return"})
    /\ []((BatchRun /\ run.ai /\ Alone)
          => \A h \in Passed :
               ([sha |-> h, kind |-> "detail"] \notin faults
                /\ ~(h \in DOMAIN startCommits /\ Truthy(startCommits[h].ai_summary)))
               => annotateCalls[h] = 1 /\ saveCalls[h] = 1)

\* in one job H3 was written without an annotation after its annotation
\* call failed and H1, after it, was written with its annotation
C14_Witness ==
    /\ BatchRun /\ run.ai /\ Alone
    /\ Len(results) = 2
    /\ results[1].sha = Short(H3) /\ results[1].aiSummary = Null
    /\ annotateCalls[H3] = 1
    /\ results[2].sha = Short(H1) /\ results[2].author = AuthorOf(H1)
    /\ results[2].aiSummary = "summary"
    /\ annotateCalls[H1] = 1
    /\ H3 \in DOMAIN db.commits /\ H1 \in DOMAIN db.commits
    /\ db.commits[H3].ai_summary = Null /\ db.commits[H3].ai_analyzed_at = Null
    /\ db.commits[H1].ai_summary = "summary"

DetailFault(h) == [sha |-> h, kind |-> "detail"] \in faults

\* the detail fetch of a fetch-commits job that fails: nothing is written or
\* reported and the loop goes on to the pause before the next reference
C15_Dropped ==
    (BatchRun /\ DetailDone(FALSE, 0))
    => /\ db' = db /\ results' = results
       /\ saveCalls' = saveCalls /\ annotateCalls' = annotateCalls
       /\ run'.pc = "pause" /\ run'.ri = run.ri /\ run'.ci = run.ci
       /\ ended' = "pending"

\* every reference the loop is through was detail-fetched once; the ones
\* whose detail fetch failed were not written or reported, all others were
\* written, and reported when the write went through
C15_OthersProcessed ==
    \A h \in Passed :
        /\ detailCalls[h] = 1
        /\ IF DetailFault(h)
           THEN saveCalls[h] = 0 /\ ResultsFor({h}) = {}
           ELSE /\ saveCalls[h] = 1
                /\ [sha |-> h, kind |-> "storage"] \in faults \/ ResultsFor({h}) # {}

\* C15: a failing detail fetch drops that one reference from the
\* fetch-commits job (no write, no result entry); every other reference within
\* the cap, of the same repository and of the later ones, is still processed,
\* and the job ends 'completed'.
C15_DetailFailureSkipsOne ==
    /\ [][C15_Dropped]_vars
    /\ [](BatchRun => C15_OthersProcessed)
    /\ []((BatchRun /\ ended = "return")
          => /\ listCalls = Len(Repos)
             /\ \A i \in 1..Len(Repos) :
                  \A h \in Names(WalkedOf(run, i)) : detailCalls[h] = 1
             /\ JobAfter(ended).status = "completed")

\* a job is over in which the detail fetch of the first reference failed and
\* the next reference and the one of the next repository were written
C15_Witness ==
    /\ BatchRun /\ ended = "return"
    /\ listing[Repos[1]] = <<H3, H2>> /\ listing[Repos[2]] = <<H1>>
    /\ DetailFault(H3)
    /\ ResultsFor({H2}) # {} /\ ResultsFor({H1}) # {}
    /\ H1 \in DOMAIN db.commits

\* C16: a fetch-commits job that starts while the GitHub token is missing
\* ends 'failed' with the configuration error as its error; no listing call,
\* detail fetch, annotation call or commit write was made for it, and the
\* datastore connection it opened is closed.
C16_NoTokenNoWork ==
    /\ [][StartRunNoToken => db' = db /\ ended' = TokenError /\ conn' = conn]_vars
    /\ [](ended = TokenError
          => /\ JobAfter(ended).status = "failed"
             /\ JobAfter(ended).error = TokenError
             /\ JobAfter(ended).completedAt # NoTime
             /\ listCalls = 0
             /\ detailCalls = Zero /\ annotateCalls = Zero /\ saveCalls = Zero
             /\ results = << >>
             /\ (Alone => db.commits = startCommits)
             /\ conn.server = 0)

\* the job without a token came after a job that stored commits
C16_Witness ==
    /\ ended = TokenError
    /\ runs = 2
    /\ DOMAIN db.commits # {}
    /\ conn.server = 0

\* ------------------------------------------------------------------------
\* Properties of the full-collection job and of updateProgress (SpecChild)
\* ------------------------------------------------------------------------
\* a job that reached its end keeps its outcome
C17_DecidedOnce ==
    \A id \in DOMAIN jobs :
        jobs[id].status \in Terminal
        => /\ id \in DOMAIN jobs'
           /\ jobs'[id].status = jobs[id].status
           /\ jobs'[id].result = jobs[id].result
           /\ jobs'[id].error = jobs[id].error
           /\ jobs'[id].completedAt = jobs[id].completedAt
           /\ children'[id].promise = children[id].promise
           /\ children'[id].value = children[id].value

\* the close event with a non-zero code, on a promise still pending, leaves
\* the job failed with a message that holds everything captured from stderr
C17_CarriesStderr ==
    \A id \in DOMAIN children :
        (/\ children[id].phase = "running"
         /\ children'[id].phase = "closed"
         /\ children'[id].code # "0")
        => /\ jobs'[id].status = "failed"
           /\ Contains(jobs'[id].error, children[id].errorOutput)
           /\ Contains(jobs'[id].error, children'[id].code)

C17_Outcome(id) ==
    LET c == children[id]
    IN  /\ c.phase = "running" => jobs[id].status = "processing"
        /\ c.phase = "errored"
           => jobs[id].status = "failed" /\ jobs[id].error = SpawnError
        /\ c.phase = "closed"
           => /\ jobs[id].status = "completed" <=> c.code = "0"
              /\ jobs[id].status = "failed" <=> c.code # "0"
              /\ jobs[id].status = "failed" => jobs[id].error = c.value
              /\ jobs[id].status = "completed" => jobs[id].error = Undefined

\* C17: a fetch-all job ends 'completed' exactly when the child exits with
\* status 0; on any other exit and on a spawn error it ends 'failed' with a
\* message that contains what was captured from the child's error stream;
\* and the outcome, once decided, is not changed by a later event of the child.
C17_ChildDecidesJob ==
    /\ [](\A id \in DOMAIN children : C17_Outcome(id))
    /\ [][C17_CarriesStderr]_vars
    /\ [][C17_DecidedOnce]_vars

\* the first child failed to spawn and both its events fired; the second
\* one wrote two chunks to stderr and exited with status 1
C17_Witness ==
    /\ DOMAIN children = {1, 2}
    /\ children[1].phase = "closed" /\ children[1].calls = 2
    /\ jobs[1].status = "failed" /\ jobs[1].error = SpawnError
    /\ children[2].phase = "closed" /\ children[2].code = "1"
    /\ jobs[2].error = "Script exited with code 1: E2E1"

\* what one updateProgress call does
C18_Effect(jobId, progress) ==
    /\ UNCHANGED <<queue, processing, running, started, peak, escaped, worker>>
    /\ DOMAIN jobs' = DOMAIN jobs
    /\ \A id \in DOMAIN jobs \ {jobId} : jobs'[id] = jobs[id]
    /\ IF jobId \in DOMAIN jobs
       THEN /\ jobs'[jobId] = [jobs[jobId] EXCEPT !.progress = progress]
            /\ lastCall'.emitted
       ELSE ~lastCall'.emitted

\* C18: updateProgress on an unknown id changes nothing and emits nothing;
\* on a known id it sets that job's progress and nothing else of the queue;
\* progress changes in no other way, so a job's progress is the value of
\* the last call made for it.
C18_ProgressLastWriteWins ==
    /\ [][\A jobId \in {0} \cup DOMAIN jobs : \A progress \in ProgressValues :
            UpdateProgressCall(jobId, progress) => C18_Effect(jobId, progress)]_vars
    /\ [][\A id \in DOMAIN jobs :
            jobs'[id].progress # jobs[id].progress
            => lastCall' = [id |-> id, progress |-> jobs'[id].progress, emitted |-> TRUE]]_vars
    /\ [](lastCall.id \in DOMAIN jobs
          => lastCall.emitted /\ jobs[lastCall.id].progress = lastCall.progress)

\* progress was set on a failed job and on the running one, and the last
\* call named an id the queue does not hold
C18_Witness ==
    /\ lastCall = [id |-> 0, progress |-> 100, emitted |-> FALSE]
    /\ DOMAIN jobs = {1, 2}
    /\ jobs[1].status = "failed" /\ jobs[1].progress = 100
    /\ jobs[2].status = "processing" /\ jobs[2].progress = 50

\* ------------------------------------------------------------------------
\* Properties of analyzeCommitWithAI (SpecFetch) and of getStats (Spec)
\* ------------------------------------------------------------------------
\* what an annotation call may return: the trimmed text of a response with
\* text, null for everything else
C19_Expected(resp) ==
    IF resp \notin {"error", "no_content"} /\ Trim(resp) # "" THEN Trim(resp) ELSE Null

\* C19: analyzeCommitWithAI returns the trimmed text when the capability
\* answers with non-empty text and null in every other case (an error, no
\* content, empty or blank content): the annotation a run stores after an
\* annotation call is that value.
C19_NullOrText ==
    [][\A resp \in Responses :
         (AnnotateDone(resp, 0) /\ lastSave' = "ok")
         => db'.commits[Walked[run.ci]].ai_summary = C19_Expected(resp)]_vars

\* C20: in every state of the queue the counts of getStats add up to its
\* total, the total is the number of jobs getAllJobs returns, and at most one
\* job is counted as processing.
C20_StatsConsistent ==
    LET stats == GetStats(jobs)
    IN  /\ stats.total = stats.pending + stats.processing + stats.completed + stats.failed
        /\ stats.total = Cardinality(GetAllJobs(jobs))
        /\ stats.processing <= 1

\* a job was swept, and of the two jobs left one waits and one runs
C20_Witness ==
    /\ GetStats(jobs) = [total |-> 2, pending |-> 1, processing |-> 1,
                         completed |-> 0, failed |-> 0]
    /\ swept # {}

\* ------------------------------------------------------------------------
\* Properties of the dispatch loop (Spec)
\* ------------------------------------------------------------------------
\* C21: once a worker invocation has ended, by returning or by raising any
\* value, the processing flag is cleared and the head of the wait-list is
\* dispatched: while no invocation is in flight the flag is clear and no
\* job waits.
C21_NeverStuck ==
    (worker /\ running = {}) => (~processing /\ queue = << >>)

\* ------------------------------------------------------------------------
\* Properties of the commit store (SpecFetch)
\* ------------------------------------------------------------------------
\* the commits row of full hash g, if any, and its commit_files rows
RowOf(d, g) == IF g \in DOMAIN d.commits THEN <<d.commits[g]>> ELSE << >>
FileRowsOf(d, g) == [r \in {x \in DOMAIN d.files : x.commit_sha = g} |-> d.files[r]]

\* C22: a stored annotation is never lost or changed: a record whose
\* annotation is not null still exists after every step of every later run,
\* with the same annotation (the steps of other writers and of DELETE
\* requests are not counted).
C22_AnnotationKept ==
    [][(env'.written = env.written /\ del.pc = "idle")
       => \A h \in DOMAIN db.commits :
            db.commits[h].ai_summary # Null
            => /\ h \in DOMAIN db'.commits
               /\ db'.commits[h].ai_summary = db.commits[h].ai_summary]_vars

\* C23: saving a commit touches only the record of its own full hash: after
\* a save by a run or by another process the record and the file rows of
\* every other full hash are the same as before.
C23_OnlyOwnRecord ==
    [][\A h \in Hashes :
         ( \/ saveCalls'[h] = saveCalls[h] + 1
           \/ \E repo \in RepoNames, aiSummary \in Summaries :
                PeerSave(h, repo, aiSummary) )
         => \A g \in Hashes \ {h} :
              /\ RowOf(db', g) = RowOf(db, g)
              /\ FileRowsOf(db', g) = FileRowsOf(db, g)]_vars

\* C25: in every stored record the annotation timestamp is set exactly when
\* the annotation text is set, whatever the text (non-empty, empty, null).
C25_TimestampIffText ==
    \A h \in DOMAIN db.commits :
      (db.commits[h].ai_analyzed_at # Null) <=> (db.commits[h].ai_summary # Null)

\* the file rows a complete save of h leaves: one per filename
C24_OneRowEach(h) ==
    [r \in {[commit_sha |-> h, filename |-> FilesOf(h)[k]] : k \in 1..Len(FilesOf(h))} |-> 1]

\* C24: on the tables created by initCommitsTables, saving again a commit
\* that is stored, with the same values, leaves the store as it was: one
\* commit row for the hash and one file row per (hash, filename).
C24_SaveIdempotent ==
    [][\A h \in Hashes :
         ( /\ db.schema = "server"
           /\ h \in DOMAIN db.commits
           /\ FileRowsOf(db, h) = C24_OneRowEach(h)
           /\ saveCalls'[h] = saveCalls[h] + 1
           /\ lastSave' = "ok"
           /\ db'.commits[h] = db.commits[h] )
         => /\ db' = db
            /\ FileRowsOf(db', h) = C24_OneRowEach(h)]_vars

\* H1, stored with its two file rows by the first run, has been saved again
\* by the second run with the same values
C24_Witness ==
    /\ db.schema = "server"
    /\ runs = 2
    /\ H1 \in DOMAIN startCommits
    /\ saveCalls[H1] = 1
    /\ saveCalls[H2] = 0
    /\ lastSave = "ok"
    /\ H1 \in DOMAIN db.commits
    /\ db.commits[H1] = startCommits[H1]
    /\ FileRowsOf(db, H1) = C24_OneRowEach(H1)

\* ------------------------------------------------------------------------
\* Properties of job progress
\* ------------------------------------------------------------------------
\* C26: the progress of a batch job is reported only for repositories that
\* are finished: when it reads p, at least p percent of the repositories
\* have been processed completely (so 100 is not visible while the last
\* repository is being fetched).
C26_ProgressAfterCompletion ==
    run.progress # NoTime
    => run.progress * Len(Repos) <= 100 * (run.ri - 1)

\* C27: whenever the progress of a job is set it is an integer from 0 to
\* 100, for batch jobs and for full-collection jobs whatever "N/M" fragment
\* the child prints.
C27_ProgressInRange ==
    /\ \A id \in DOMAIN jobs : jobs[id].progress # NoTime => jobs[id].progress \in 0..100
    /\ run.progress # NoTime => run.progress \in 0..100

\* ------------------------------------------------------------------------
\* Properties of the queue under any order of calls (SpecAnyOrder)
\* ------------------------------------------------------------------------
\* C28: every job that was added eventually reaches 'completed' or
\* 'failed', whatever the order of setWorker and addJob, provided every
\* worker invocation settles.
C28_EveryJobEnds ==
    \A id \in 1..MaxJobs :
      [](id \in DOMAIN jobs => <>(id \in DOMAIN jobs /\ jobs[id].status \in Terminal))

\* ------------------------------------------------------------------------
\* Properties of the dispatch loop, continued (Spec)
\* ------------------------------------------------------------------------
\* C29: a job is handed to the worker at most once: every dispatch hands
\* over a job that was pending and had never been handed over, so a job
\* that is 'completed' or 'failed' is not executed again.
C29_HandedOnce ==
    [][/\ Len(started') >= Len(started)
       /\ SubSeq(started', 1, Len(started)) = started
       /\ \A k \in (Len(started) + 1)..Len(started') :
            /\ started'[k] \notin Started
            /\ \A j \in (Len(started) + 1)..Len(started') : started'[j] = started'[k] => j = k
            /\ started'[k] \in DOMAIN jobs => jobs[started'[k]].status = "pending"]_vars

\* the first job failed, the second is with the worker and a third waits
C29_Witness ==
    /\ started = <<1, 2>>
    /\ DOMAIN jobs = {1, 2, 3}
    /\ jobs[1].status = "failed"
    /\ jobs[2].status = "processing"
    /\ queue = <<3>>

\* the ids of the pending jobs in the order they were added
RECURSIVE PendingUpTo(_)
PendingUpTo(n) ==
    IF n = 0 THEN << >>
    ELSE IF n \in DOMAIN jobs /\ jobs[n].status = "pending"
         THEN Append(PendingUpTo(n - 1), n)
         ELSE PendingUpTo(n - 1)

\* C30: the wait-list holds, without duplicates and in the order they were
\* added, exactly the ids of the pending jobs, every id in it is in the job
\* map, and the processing flag is set exactly when one job is 'processing'.
C30_WaitListIsPending ==
    /\ queue = PendingUpTo(nextId - 1)
    /\ \A i \in 1..Len(queue) : queue[i] \in DOMAIN jobs
    /\ processing <=> Cardinality(WithStatus("processing")) = 1

====
